---- MODULE Spec2Model ----
(***************************************************************************)
(* Model of Compiler.py: the game-movement DSL pipeline                    *)
(*   lex -> Parser.parse -> semantic_check -> generate_tac -> optimize_tac *)
(*   -> exec_TAC, driven by compile_and_run and the __main__ handler.      *)
(*                                                                         *)
(* A Python str is a sequence of one-character strings, so that lower(),   *)
(* int(), str() and the f-strings are computed and not assumed.  Python's  *)
(* None is the one-element sequence None, which is no str.  Positions and  *)
(* cursors are 0-based as in the source; text[i] of the source is          *)
(* text[i + 1] here.                                                       *)
(***************************************************************************)
EXTENDS Integers, Sequences, FiniteSets, TLC

None == <<"None">>

\* ------------------------------------------------------------------ str
UPPERCASE == <<"A","B","C","D","E","F","G","H","I","J","K","L","M",
               "N","O","P","Q","R","S","T","U","V","W","X","Y","Z">>

LOWERCASE == <<"a","b","c","d","e","f","g","h","i","j","k","l","m",
               "n","o","p","q","r","s","t","u","v","w","x","y","z">>

DIGITS == <<"0","1","2","3","4","5","6","7","8","9">>

\* U+00B2 SUPERSCRIPT TWO, one character: str.isdigit() is true of it and int()
\* rejects it
SUPERSCRIPT_TWO == "u00B2"

Range(s) == {s[k] : k \in 1..Len(s)}

IndexOf(s, c) == CHOOSE k \in 1..Len(s) : s[k] = c

\* str.isalpha() and str.isdigit() of one character
is_letter(c) == c \in Range(UPPERCASE) \cup Range(LOWERCASE)

is_digit(c) == c \in Range(DIGITS) \cup {SUPERSCRIPT_TWO}

\* int(s) returns a value; it raises ValueError otherwise
int_accepts(s) == s # <<>> /\ Range(s) \subseteq Range(DIGITS)

lower_char(c) == IF c \in Range(UPPERCASE) THEN LOWERCASE[IndexOf(UPPERCASE, c)] ELSE c

\* lower() that leaves the text as it is
lower_identity(s) == s

\* str.lower()
lower(s) == [k \in 1..Len(s) |-> lower_char(s[k])]

\* The characters str.lstrip() removes (those of them the model's texts use)
PY_WHITESPACE == {" ", "\t", "\n", "\r", "\f"}

RECURSIVE lstrip(_)
lstrip(s) == IF s # <<>> /\ Head(s) \in PY_WHITESPACE THEN lstrip(Tail(s)) ELSE s

\* int(s) of a digit string, as Python computes it: base 10, most significant first
RECURSIVE int(_)
int(s) == IF s = <<>> THEN 0
          ELSE 10 * int(SubSeq(s, 1, Len(s) - 1)) + (IndexOf(DIGITS, s[Len(s)]) - 1)

\* str(n) of a non-negative int: no leading zeros
RECURSIVE str(_)
str(n) == IF n < 10 THEN <<DIGITS[n + 1]>>
          ELSE str(n \div 10) \o <<DIGITS[(n % 10) + 1]>>

\* text[a:b]
Slice(text, a, b) == SubSeq(text, a + 1, b)

\* ---------------------------------------------------------------- tokens
T_MOVE == <<"M","O","V","E">>
T_TURN == <<"T","U","R","N">>
T_LEFT == <<"L","E","F","T">>
T_RIGHT == <<"R","I","G","H","T">>
T_JUMP == <<"J","U","M","P">>
T_ATTACK == <<"A","T","T","A","C","K">>
T_NUMBER == <<"N","U","M","B","E","R">>
T_SEMICOLON == <<"S","E","M","I","C","O","L","O","N">>
T_EOF == <<"E","O","F">>

Token(type, value, pos) == [type |-> type, value |-> value, pos |-> pos]

KEYWORDS == (<<"m","o","v","e">> :> T_MOVE) @@ (<<"t","u","r","n">> :> T_TURN)
         @@ (<<"l","e","f","t">> :> T_LEFT) @@ (<<"r","i","g","h","t">> :> T_RIGHT)
         @@ (<<"j","u","m","p">> :> T_JUMP) @@ (<<"a","t","t","a","c","k">> :> T_ATTACK)

\* ------------------------------------------------------------ exceptions
NoExc == [type |-> "None", msg |-> "", text |-> None, expected |-> None, got |-> None, pos |-> -1]

Raise(type, msg, text, expected, got, pos) ==
  [type |-> type, msg |-> msg, text |-> text, expected |-> expected, got |-> got, pos |-> pos]

\* ----------------------------------------------------------------- lexer
LEX_WHITESPACE == {" ", "\t", "\r", "\n"}

RECURSIVE scan_digits(_, _)
scan_digits(text, i) ==
  IF i < Len(text) /\ is_digit(text[i + 1]) THEN scan_digits(text, i + 1) ELSE i

RECURSIVE scan_letters(_, _)
scan_letters(text, i) ==
  IF i < Len(text) /\ is_letter(text[i + 1]) THEN scan_letters(text, i + 1) ELSE i

RECURSIVE lex_loop(_, _, _)
lex_loop(text, i, tokens) ==
  IF ~(i < Len(text))
  THEN [tokens |-> Append(tokens, Token(T_EOF, <<>>, i)), exc |-> NoExc]
  ELSE LET c == text[i + 1] IN
       IF c \in LEX_WHITESPACE THEN lex_loop(text, i + 1, tokens)
       ELSE IF c = ";"
       THEN lex_loop(text, i + 1, Append(tokens, Token(T_SEMICOLON, <<";">>, i)))
       ELSE IF is_digit(c)
       THEN LET j == scan_digits(text, i) IN
            lex_loop(text, j, Append(tokens, Token(T_NUMBER, Slice(text, i, j), i)))
       ELSE IF is_letter(c)
       THEN LET j == scan_letters(text, i)
                word == lower(Slice(text, i, j)) IN
            IF word \in DOMAIN KEYWORDS
            THEN lex_loop(text, j, Append(tokens, Token(KEYWORDS[word], word, i)))
            ELSE [tokens |-> None,
                  exc |-> Raise("SyntaxError", "Unknown identifier", word, None, None, i)]
       ELSE [tokens |-> None,
             exc |-> Raise("SyntaxError", "Unexpected character", <<c>>, None, None, i)]

\* lex that skips a character it does not know instead of raising
lex_skip(text) ==
  lex_loop(SelectSeq(text, LAMBDA c : c \in LEX_WHITESPACE \cup {";"} \/ is_digit(c) \/ is_letter(c)),
           0, <<>>)

lex(text) == lex_loop(text, 0, <<>>)

\* ------------------------------------------------------------------- AST
Stmt(kind, arg, subkind, pos) == [kind |-> kind, arg |-> arg, subkind |-> subkind, pos |-> pos]

Program(stmts) == [statements |-> stmts]

\* ---------------------------------------------------------------- parser
\* Parser.__init__; consumed is the history of the cursor values consume() left
Parser(tokens) == [tokens |-> tokens, i |-> 0, consumed |-> <<>>]

peek(p) == p.tokens[p.i + 1]

consume(p, expected_type) ==
  LET tok == peek(p) IN
  IF expected_type # None /\ tok.type # expected_type
  THEN [p |-> p, tok |-> tok,
        exc |-> Raise("SyntaxError", "Expected", None, expected_type, tok.type, tok.pos)]
  ELSE [p |-> [p EXCEPT !.i = @ + 1, !.consumed = Append(@, p.i)], tok |-> tok, exc |-> NoExc]

Failed(p, exc) == [p |-> p, stmt |-> None, exc |-> exc]

\* the MOVE and JUMP branches of parse_stmt: keyword NUMBER ';'
parse_counted(p, kind) ==
  LET tok == peek(p)
      c1 == consume(p, kind)
      c2 == consume(c1.p, T_NUMBER)
      c3 == consume(c2.p, T_SEMICOLON) IN
  IF c1.exc # NoExc THEN Failed(c1.p, c1.exc)
  ELSE IF c2.exc # NoExc THEN Failed(c2.p, c2.exc)
  ELSE IF c3.exc # NoExc THEN Failed(c3.p, c3.exc)
  ELSE IF ~int_accepts(c2.tok.value)
  THEN Failed(c3.p, Raise("ValueError", "invalid literal for int() with base 10",
                          c2.tok.value, None, None, -1))
  ELSE [p |-> c3.p, stmt |-> Stmt(kind, int(c2.tok.value), None, tok.pos), exc |-> NoExc]

parse_turn(p) ==
  LET tok == peek(p)
      c1 == consume(p, T_TURN)
      d == peek(c1.p)
      c2 == consume(c1.p, None)
      c3 == consume(c2.p, T_SEMICOLON) IN
  IF c1.exc # NoExc THEN Failed(c1.p, c1.exc)
  ELSE IF d.type \notin {T_LEFT, T_RIGHT}
  THEN Failed(c1.p, Raise("SyntaxError", "Expected LEFT or RIGHT", None,
                          T_LEFT \o <<" ","o","r"," ">> \o T_RIGHT, None, d.pos))
  ELSE IF c3.exc # NoExc THEN Failed(c3.p, c3.exc)
  ELSE [p |-> c3.p, stmt |-> Stmt(T_TURN, None, c2.tok.type, tok.pos), exc |-> NoExc]

\* parse_attack without the mandatory semicolon
parse_attack_no_semicolon(p) ==
  LET tok == peek(p)
      c1 == consume(p, T_ATTACK) IN
  IF c1.exc # NoExc THEN Failed(c1.p, c1.exc)
  ELSE [p |-> c1.p, stmt |-> Stmt(T_ATTACK, None, None, tok.pos), exc |-> NoExc]

parse_attack(p) ==
  LET tok == peek(p)
      c1 == consume(p, T_ATTACK)
      c2 == consume(c1.p, T_SEMICOLON) IN
  IF c1.exc # NoExc THEN Failed(c1.p, c1.exc)
  ELSE IF c2.exc # NoExc THEN Failed(c2.p, c2.exc)
  ELSE [p |-> c2.p, stmt |-> Stmt(T_ATTACK, None, None, tok.pos), exc |-> NoExc]

parse_stmt(p) ==
  LET tok == peek(p) IN
  IF tok.type = T_MOVE THEN parse_counted(p, T_MOVE)
  ELSE IF tok.type = T_TURN THEN parse_turn(p)
  ELSE IF tok.type = T_JUMP THEN parse_counted(p, T_JUMP)
  ELSE IF tok.type = T_ATTACK THEN parse_attack(p)
  ELSE Failed(p, Raise("SyntaxError", "Unexpected token", None, None, tok.type, tok.pos))

RECURSIVE parse_loop(_, _)
parse_loop(p, stmts) ==
  IF peek(p).type # T_EOF
  THEN LET r == parse_stmt(p) IN
       IF r.exc # NoExc THEN [p |-> r.p, program |-> None, exc |-> r.exc]
       ELSE parse_loop(r.p, Append(stmts, r.stmt))
  ELSE [p |-> p, program |-> Program(stmts), exc |-> NoExc]

parse(p) == parse_loop(p, <<>>)

\* ----------------------------------------------------- semantic analysis
RECURSIVE semantic_loop(_, _)
semantic_loop(statements, k) ==
  IF k > Len(statements) THEN NoExc
  ELSE LET s == statements[k] IN
       IF s.kind \in {T_MOVE, T_JUMP} /\ s.arg < 0
       THEN Raise("SemanticError", "Argument must be >=0", None, None, None, s.pos)
       ELSE IF s.kind = T_TURN /\ s.subkind \notin {T_LEFT, T_RIGHT}
       THEN Raise("SemanticError", "Invalid direction", None, None, None, s.pos)
       ELSE semantic_loop(statements, k + 1)

semantic_check(program) == semantic_loop(program.statements, 1)

\* ------------------------------------------------------------------- TAC
OP_ASSIGN == <<"a","s","s","i","g","n">>
OP_CALL == <<"c","a","l","l">>
F_MOVE == <<"m","o","v","e">>
F_JUMP == <<"j","u","m","p">>
F_TURN_LEFT == <<"t","u","r","n","_","l","e","f","t">>
F_TURN_RIGHT == <<"t","u","r","n","_","r","i","g","h","t">>
F_ATTACK == <<"a","t","t","a","c","k">>

TACInstr(op, arg, arg2, result) == [op |-> op, arg |-> arg, arg2 |-> arg2, result |-> result]

\* temp() that does not read the counter
temp_reused(tcount) == <<"t", "1">>

\* temp() after tcount += 1: f"t{tcount}"
temp(tcount) == <<"t">> \o str(tcount)

RECURSIVE generate_loop(_, _, _, _)
generate_loop(statements, k, tac, tcount) ==
  IF k > Len(statements) THEN tac
  ELSE LET s == statements[k]
           t == temp(tcount + 1) IN
       IF s.kind = T_MOVE
       THEN generate_loop(statements, k + 1,
              tac \o <<TACInstr(OP_ASSIGN, str(s.arg), None, t),
                       TACInstr(OP_CALL, F_MOVE, t, None)>>, tcount + 1)
       ELSE IF s.kind = T_JUMP
       THEN generate_loop(statements, k + 1,
              tac \o <<TACInstr(OP_ASSIGN, str(s.arg), None, t),
                       TACInstr(OP_CALL, F_JUMP, t, None)>>, tcount + 1)
       ELSE IF s.kind = T_TURN
       THEN generate_loop(statements, k + 1,
              Append(tac, TACInstr(OP_CALL, <<"t","u","r","n","_">> \o lower(s.subkind),
                                   None, None)), tcount)
       ELSE IF s.kind = T_ATTACK
       THEN generate_loop(statements, k + 1,
              Append(tac, TACInstr(OP_CALL, F_ATTACK, None, None)), tcount)
       ELSE generate_loop(statements, k + 1, tac, tcount)

generate_tac(program) == generate_loop(program.statements, 1, <<>>, 0)

\* ------------------------------------------------------------- optimizer
\* is_dead checking the callee move only
is_dead_move_only(tac, i) ==
  LET curr == tac[i + 1] IN
  /\ curr.op = OP_ASSIGN /\ curr.arg = <<"0">>
  /\ i + 1 < Len(tac)
  /\ LET nxt == tac[i + 2] IN
     nxt.op = OP_CALL /\ nxt.arg = F_MOVE /\ nxt.arg2 = curr.result

\* is_dead without the comparison of the call's temporary
is_dead_any_temp(tac, i) ==
  LET curr == tac[i + 1] IN
  /\ curr.op = OP_ASSIGN /\ curr.arg = <<"0">>
  /\ i + 1 < Len(tac)
  /\ LET nxt == tac[i + 2] IN
     nxt.op = OP_CALL /\ nxt.arg \in {F_MOVE, F_JUMP}

\* the guard of the dead-code rule at position i (0-based)
is_dead(tac, i) ==
  LET curr == tac[i + 1] IN
  /\ curr.op = OP_ASSIGN /\ curr.arg = <<"0">>
  /\ i + 1 < Len(tac)
  /\ LET nxt == tac[i + 2] IN
     nxt.op = OP_CALL /\ nxt.arg \in {F_MOVE, F_JUMP} /\ nxt.arg2 = curr.result

\* is_cancel with the left-then-right order only
is_cancel_one_order(tac, i) ==
  LET curr == tac[i + 1] IN
  /\ i + 1 < Len(tac)
  /\ LET nxt == tac[i + 2] IN
     curr.arg = F_TURN_LEFT /\ nxt.arg = F_TURN_RIGHT

\* is_cancel taking any two adjacent turns
is_cancel_any_turns(tac, i) ==
  LET curr == tac[i + 1] IN
  /\ i + 1 < Len(tac)
  /\ LET nxt == tac[i + 2] IN
     curr.arg \in {F_TURN_LEFT, F_TURN_RIGHT} /\ nxt.arg \in {F_TURN_LEFT, F_TURN_RIGHT}

\* the guard of the redundant-turn rule at position i (0-based)
is_cancel(tac, i) ==
  LET curr == tac[i + 1] IN
  /\ i + 1 < Len(tac)
  /\ LET nxt == tac[i + 2] IN
     \/ curr.arg = F_TURN_LEFT /\ nxt.arg = F_TURN_RIGHT
     \/ curr.arg = F_TURN_RIGHT /\ nxt.arg = F_TURN_LEFT

RECURSIVE optimize_loop(_, _, _)
optimize_loop(tac, i, optimized) ==
  IF ~(i < Len(tac)) THEN optimized
  ELSE IF is_dead(tac, i) THEN optimize_loop(tac, i + 2, optimized)
  ELSE IF is_cancel(tac, i) THEN optimize_loop(tac, i + 2, optimized)
  ELSE optimize_loop(tac, i + 1, Append(optimized, tac[i + 1]))

optimize_tac(tac) == IF tac = <<>> THEN tac ELSE optimize_loop(tac, 0, <<>>)

\* ----------------------------------------------------------- interpreter
\* One printed "[SIM] ..." line: the action and the rendering of x in the f-string
Sim(action, x) == [action |-> action, x |-> x]

PY_NONE == <<"N","o","n","e">>

\* f"{x}" for x = env.get(instr.arg2) if instr.arg2 else None
format_x(env, arg2) ==
  IF arg2 # None /\ arg2 # <<>> /\ arg2 \in DOMAIN env THEN str(env[arg2]) ELSE PY_NONE

RECURSIVE exec_loop(_, _, _, _)
exec_loop(tac, k, env, out) ==
  IF k > Len(tac) THEN [out |-> out, exc |-> NoExc]
  ELSE LET instr == tac[k] IN
       IF instr.op = OP_ASSIGN
       THEN exec_loop(tac, k + 1,
                      [t \in DOMAIN env \cup {instr.result} |->
                         IF t = instr.result THEN int(instr.arg) ELSE env[t]], out)
       ELSE IF instr.op = OP_CALL
       THEN LET func == instr.arg IN
            IF func = F_MOVE
            THEN exec_loop(tac, k + 1, env, Append(out, Sim("MOVE", format_x(env, instr.arg2))))
            ELSE IF func = F_JUMP
            THEN exec_loop(tac, k + 1, env, Append(out, Sim("JUMP", format_x(env, instr.arg2))))
            ELSE IF func = F_TURN_LEFT
            THEN exec_loop(tac, k + 1, env, Append(out, Sim("TURN LEFT", None)))
            ELSE IF func = F_TURN_RIGHT
            THEN exec_loop(tac, k + 1, env, Append(out, Sim("TURN RIGHT", None)))
            ELSE IF func = F_ATTACK
            THEN exec_loop(tac, k + 1, env, Append(out, Sim("ATTACK", None)))
            ELSE [out |-> out,
                  exc |-> Raise("RuntimeError", "Unknown call", func, None, None, -1)]
       ELSE exec_loop(tac, k + 1, env, out)

exec_TAC(tac) == exec_loop(tac, 1, <<>>, <<>>)

\* ---------------------------------------------------------------- driver
VARIABLES source, pc, text, tokens, parser, program, tac, optimized_tac, out, exc, diag

vars == <<source, pc, text, tokens, parser, program, tac, optimized_tac, out, exc, diag>>

SAMPLE == <<"\n","T","U","R","N"," ","L","E","F","T",";"," ","T","U","R","N"," ",
            "R","I","G","H","T",";"," ","M","O","V","E"," ","0",";"," ",
            "A","t","t","a","c","k",";","\n">>

\* Source fragments the checked texts are concatenated from
MaxItems == 3

Items == { <<"m","o","v","e"," ","0",";">>,
           <<"m","o","v","e"," ","5",";">>,
           <<"j","u","m","p"," ","0","0",";">>,
           <<"J","u","m","p"," ","1","2",";">>,
           <<"m","o","v","e"," ",SUPERSCRIPT_TWO,";">>,
           <<"t","u","r","n"," ","l","e","f","t",";">>,
           <<"t","u","r","n"," ","r","i","g","h","t",";">>,
           <<"a","t","t","a","c","k",";">>,
           <<"a","t","t","a","c","k">>,
           <<"t","u","r","n">>,
           <<"m","o","v","e",";">>,
           <<";">>,
           <<" ">>,
           <<"f","o","o">>,
           <<"7">>,
           <<"#">> }

RECURSIVE Flatten(_)
Flatten(ss) == IF ss = <<>> THEN <<>> ELSE Head(ss) \o Flatten(Tail(ss))

Sources ==
  {SAMPLE} \cup UNION {{Flatten(ss) : ss \in [1..n -> Items]} : n \in 0..MaxItems}

\* Instruction lists handed to optimize_tac and exec_TAC directly
MaxTac == 4

T1 == temp(1)

T2 == temp(2)

Instrs == { TACInstr(OP_ASSIGN, <<"0">>, None, T1),
            TACInstr(OP_ASSIGN, <<"0">>, None, T2),
            TACInstr(OP_ASSIGN, <<"5">>, None, T1),
            TACInstr(OP_CALL, F_MOVE, T1, None),
            TACInstr(OP_CALL, F_JUMP, T2, None),
            TACInstr(OP_CALL, F_TURN_LEFT, None, None),
            TACInstr(OP_CALL, F_TURN_RIGHT, None, None),
            TACInstr(OP_CALL, F_ATTACK, None, None),
            TACInstr(OP_CALL, <<"f","l","y">>, None, None) }

TacLists == UNION {[1..n -> Instrs] : n \in 0..MaxTac}

\* The stages of compile_and_run in the order of its statements; pc names the
\* stage to run next, and stays at a stage that raised until the handler ran
STAGES == <<"lex", "parse", "semantic_check", "generate_tac", "optimize_tac", "exec_TAC", "done">>

\* the stage the run is at, or was at when the handler took over
At == IF pc = "exit" THEN diag[Len(diag)].stage ELSE pc

\* the stage has returned normally
Completed(stage) == IndexOf(STAGES, At) > IndexOf(STAGES, stage)

\* compile_and_run(source_code) is entered; no local is bound yet
Init ==
  /\ source \in Sources
  /\ pc = "lex"
  /\ text = <<>> /\ tokens = <<>> /\ parser = Parser(<<>>) /\ program = Program(<<>>)
  /\ tac = <<>> /\ optimized_tac = <<>>
  /\ out = <<>> /\ exc = NoExc /\ diag = <<>>

\* text = text.lstrip(); tokens = lex(text)
Lex ==
  /\ pc = "lex" /\ exc = NoExc
  /\ text' = lstrip(source)
  /\ LET r == lex(text') IN
     IF r.exc # NoExc
     THEN exc' = r.exc /\ UNCHANGED <<pc, tokens>>
     ELSE tokens' = r.tokens /\ pc' = "parse" /\ UNCHANGED exc
  /\ UNCHANGED <<source, parser, program, tac, optimized_tac, out, diag>>

\* parser = Parser(tokens); program = parser.parse()
Parse ==
  /\ pc = "parse" /\ exc = NoExc
  /\ LET r == parse(Parser(tokens)) IN
     /\ parser' = r.p
     /\ IF r.exc # NoExc
        THEN exc' = r.exc /\ UNCHANGED <<pc, program>>
        ELSE program' = r.program /\ pc' = "semantic_check" /\ UNCHANGED exc
  /\ UNCHANGED <<source, text, tokens, tac, optimized_tac, out, diag>>

SemanticCheck ==
  /\ pc = "semantic_check" /\ exc = NoExc
  /\ LET e == semantic_check(program) IN
     IF e # NoExc
     THEN exc' = e /\ UNCHANGED pc
     ELSE pc' = "generate_tac" /\ UNCHANGED exc
  /\ UNCHANGED <<source, text, tokens, parser, program, tac, optimized_tac, out, diag>>

GenerateTac ==
  /\ pc = "generate_tac" /\ exc = NoExc
  /\ tac' = generate_tac(program)
  /\ pc' = "optimize_tac"
  /\ UNCHANGED <<source, text, tokens, parser, program, optimized_tac, out, exc, diag>>

OptimizeTac ==
  /\ pc = "optimize_tac" /\ exc = NoExc
  /\ optimized_tac' = optimize_tac(tac)
  /\ pc' = "exec_TAC"
  /\ UNCHANGED <<source, text, tokens, parser, program, tac, out, exc, diag>>

\* exec_TAC(optimized_tac), then return program, tac
ExecTAC ==
  /\ pc = "exec_TAC" /\ exc = NoExc
  /\ LET r == exec_TAC(optimized_tac) IN
     /\ out' = r.out
     /\ IF r.exc # NoExc
        THEN exc' = r.exc /\ UNCHANGED pc
        ELSE pc' = "done" /\ UNCHANGED exc
  /\ UNCHANGED <<source, text, tokens, parser, program, tac, optimized_tac, diag>>

\* the except clauses around compile_and_run
Handler ==
  /\ exc # NoExc /\ pc # "exit"
  /\ diag' = Append(diag, [label |-> IF exc.type = "SyntaxError" THEN "Syntax Error:"
                                     ELSE IF exc.type = "SemanticError" THEN "Semantic Error:"
                                     ELSE "Runtime Error:",
                           e |-> exc, stage |-> pc])
  /\ pc' = "exit"
  /\ UNCHANGED <<source, text, tokens, parser, program, tac, optimized_tac, out, exc>>

Next == Lex \/ Parse \/ SemanticCheck \/ GenerateTac \/ OptimizeTac \/ ExecTAC \/ Handler

Spec == Init /\ [][Next]_vars

\* optimize_tac and exec_TAC on any instruction list of the IR data model
InitTac ==
  /\ source = <<>> /\ text = <<>> /\ tokens = <<>> /\ parser = Parser(<<>>)
  /\ program = Program(<<>>)
  /\ tac \in TacLists
  /\ pc = "optimize_tac"
  /\ optimized_tac = <<>>
  /\ out = <<>> /\ exc = NoExc /\ diag = <<>>

NextTac == OptimizeTac \/ ExecTAC \/ Handler

SpecTac == InitTac /\ [][NextTac]_vars

\* ================================================================ claims
\* ------------------------------------------ instruction-level vocabulary
IsAssign(a) == a.op = OP_ASSIGN

IsCall(a, callees) == a.op = OP_CALL /\ a.arg \in callees

\* Assign(t, "0") followed by Call(move|jump, t)
ZeroPair(a, b) ==
  IsAssign(a) /\ a.arg = <<"0">> /\ IsCall(b, {F_MOVE, F_JUMP}) /\ b.arg2 = a.result

\* Call(turn_left), Call(turn_right) in either order
OppositeTurns(a, b) ==
  /\ IsCall(a, {F_TURN_LEFT, F_TURN_RIGHT}) /\ IsCall(b, {F_TURN_LEFT, F_TURN_RIGHT})
  /\ a.arg # b.arg

\* The sweep as the specification words it, by structural recursion on the list
RECURSIVE Sweep(_)
Sweep(l) ==
  IF l = <<>> THEN <<>>
  ELSE IF Len(l) >= 2 /\ ZeroPair(l[1], l[2]) THEN Sweep(SubSeq(l, 3, Len(l)))
  ELSE IF Len(l) >= 2 /\ OppositeTurns(l[1], l[2]) THEN Sweep(SubSeq(l, 3, Len(l)))
  ELSE <<l[1]>> \o Sweep(Tail(l))

CallLeft == TACInstr(OP_CALL, F_TURN_LEFT, None, None)

CallRight == TACInstr(OP_CALL, F_TURN_RIGHT, None, None)

Optimized == Completed("optimize_tac")

\* C1: optimize_tac returns exactly the result of one left-to-right sweep that
\* drops an Assign-0/Call(move|jump) pair on the same temporary, else drops a
\* pair of opposite turns, else keeps the instruction; no position is examined
\* again, so (left, left) survives and (left, left, right, right) becomes
\* (left, right).
C1_SingleSweep ==
  Optimized =>
    /\ optimized_tac = Sweep(tac)
    /\ tac = <<CallLeft, CallLeft>> => optimized_tac = tac
    /\ tac = <<CallLeft, CallLeft, CallRight, CallRight>>
         => optimized_tac = <<CallLeft, CallRight>>

C1_Witness ==
  /\ pc = "exec_TAC"
  /\ tac = <<CallLeft, CallLeft, CallRight, CallRight>>
  /\ optimized_tac = <<CallLeft, CallRight>>

NoPairs(l) ==
  \A k \in 1..(Len(l) - 1) : ~ZeroPair(l[k], l[k + 1]) /\ ~OppositeTurns(l[k], l[k + 1])

\* C6: an instruction list with no adjacent Assign-0/Call(move|jump) pair on
\* the same temporary and no adjacent pair of opposite turns is returned by
\* optimize_tac unchanged, and optimizing the result again changes nothing.
C6_FixedPoint ==
  (Optimized /\ NoPairs(tac)) =>
    /\ optimized_tac = tac
    /\ optimize_tac(optimized_tac) = optimized_tac

C6_Witness ==
  /\ pc = "exec_TAC"
  /\ tac = <<TACInstr(OP_ASSIGN, <<"0">>, None, T1), TACInstr(OP_CALL, F_JUMP, T2, None),
             CallLeft, CallLeft>>
  /\ NoPairs(tac)
  /\ optimized_tac = tac

\* C9: a move or jump Call whose temporary has no value in the Environment
\* makes the run fail instead of emitting an action, so every MOVE/JUMP
\* action emitted carries a resolved integer.
C9_ResolvedPayload ==
  \A k \in 1..Len(out) :
    out[k].action \in {"MOVE", "JUMP"} => out[k].x # PY_NONE /\ Range(out[k].x) \subseteq Range(DIGITS)

\* ------------------------------------------------- source-level vocabulary
\* The first offending item of a left-to-right scan of a text, as the
\* specification words it: a maximal letter run that is no keyword, or a
\* character that is no whitespace, semicolon, letter or digit
RECURSIVE Offence(_, _)
Offence(src, i) ==
  IF i >= Len(src) THEN [kind |-> "none", item |-> <<>>, pos |-> -1]
  ELSE LET c == src[i + 1] IN
       IF is_letter(c)
       THEN LET j == scan_letters(src, i)
                word == Slice(src, i, j) IN
            IF lower(word) \in DOMAIN KEYWORDS THEN Offence(src, j)
            ELSE [kind |-> "Unknown identifier", item |-> word, pos |-> i]
       ELSE IF c \in {" ", "\t", "\r", "\n", ";"} \/ is_digit(c) THEN Offence(src, i + 1)
       ELSE [kind |-> "Unexpected character", item |-> <<c>>, pos |-> i]

FirstOffence == Offence(source, 0)

LexFailed == exc # NoExc /\ At = "lex"

\* C7: a lexical failure is raised for the first offending item of the given
\* source text and reports that item (a word in the lower case the lexer
\* compares it in) and its offset in the given source text, also when the
\* source starts with whitespace.
C7_OffsetInSource ==
  LexFailed =>
    /\ exc.msg = FirstOffence.kind
    /\ exc.text = lower(FirstOffence.item)
    /\ exc.pos = FirstOffence.pos

\* ------------------------------------------------- token-level vocabulary
KindAt(toks, k) == toks[k].type

\* toks[k..] derives Statement* END of the grammar (k is 1-based)
RECURSIVE Derives(_, _)
Derives(toks, k) ==
  IF KindAt(toks, k) = T_EOF THEN k = Len(toks)
  ELSE IF KindAt(toks, k) \in {T_MOVE, T_JUMP}
  THEN KindAt(toks, k + 1) = T_NUMBER /\ KindAt(toks, k + 2) = T_SEMICOLON /\ Derives(toks, k + 3)
  ELSE IF KindAt(toks, k) = T_TURN
  THEN /\ KindAt(toks, k + 1) \in {T_LEFT, T_RIGHT}
       /\ KindAt(toks, k + 2) = T_SEMICOLON /\ Derives(toks, k + 3)
  ELSE IF KindAt(toks, k) = T_ATTACK
  THEN KindAt(toks, k + 1) = T_SEMICOLON /\ Derives(toks, k + 2)
  ELSE FALSE

\* the Statements of a derivation, one per production, in source order
RECURSIVE StmtsOf(_, _)
StmtsOf(toks, k) ==
  IF KindAt(toks, k) = T_EOF THEN <<>>
  ELSE IF KindAt(toks, k) \in {T_MOVE, T_JUMP}
  THEN <<Stmt(KindAt(toks, k), int(toks[k + 1].value), None, toks[k].pos)>> \o StmtsOf(toks, k + 3)
  ELSE IF KindAt(toks, k) = T_TURN
  THEN <<Stmt(T_TURN, None, KindAt(toks, k + 1), toks[k].pos)>> \o StmtsOf(toks, k + 3)
  ELSE <<Stmt(T_ATTACK, None, None, toks[k].pos)>> \o StmtsOf(toks, k + 2)

Miss(at, expected, why) == [at |-> at, expected |-> expected, why |-> why]

\* the first token (1-based) that stops a derivation, statement by statement:
\* one the selected production does not expect ("kind", with the kinds it
\* expects), one that can begin no statement ("start"), or the NUMBER of a
\* complete production whose text is no decimal literal ("number")
RECURSIVE Mismatch(_, _)
Mismatch(toks, k) ==
  IF KindAt(toks, k) = T_EOF THEN Miss(0, {}, "none")
  ELSE IF KindAt(toks, k) \in {T_MOVE, T_JUMP}
  THEN IF KindAt(toks, k + 1) # T_NUMBER THEN Miss(k + 1, {T_NUMBER}, "kind")
       ELSE IF KindAt(toks, k + 2) # T_SEMICOLON THEN Miss(k + 2, {T_SEMICOLON}, "kind")
       ELSE IF \E c \in Range(toks[k + 1].value) : c \notin Range(DIGITS)
       THEN Miss(k + 1, {}, "number")
       ELSE Mismatch(toks, k + 3)
  ELSE IF KindAt(toks, k) = T_TURN
  THEN IF KindAt(toks, k + 1) \notin {T_LEFT, T_RIGHT} THEN Miss(k + 1, {T_LEFT, T_RIGHT}, "kind")
       ELSE IF KindAt(toks, k + 2) # T_SEMICOLON THEN Miss(k + 2, {T_SEMICOLON}, "kind")
       ELSE Mismatch(toks, k + 3)
  ELSE IF KindAt(toks, k) = T_ATTACK
  THEN IF KindAt(toks, k + 1) # T_SEMICOLON THEN Miss(k + 1, {T_SEMICOLON}, "kind")
       ELSE Mismatch(toks, k + 2)
  ELSE Miss(k, {T_MOVE, T_TURN, T_JUMP, T_ATTACK, T_EOF}, "start")

Lexed == Completed("lex")

Parsed == Completed("parse")

ParseFailed == exc # NoExc /\ At = "parse"

\* the words of the expected kinds, as the two messages of the parser name them
NamesExpected(e, expected) ==
  \/ expected = {e}
  \/ expected = {T_LEFT, T_RIGHT} /\ e = T_LEFT \o <<" ","o","r"," ">> \o T_RIGHT

ParseSucceeds ==
  /\ program = Program(StmtsOf(tokens, 1))
  /\ parser.i = Len(tokens) - 1
  /\ peek(parser).type = T_EOF
  /\ parser.consumed = [k \in 1..(Len(tokens) - 1) |-> k - 1]

Generated == Completed("generate_tac")

Indices(l) == [k \in 1..Len(l) |-> k]

\* the positions of the Call instructions of a list, in order
CallPositions(l) == SelectSeq(Indices(l), LAMBDA k : l[k].op = OP_CALL)

\* the callee the specification fixes for a statement kind
CalleeOf(st) ==
  IF st.kind = T_MOVE THEN F_MOVE
  ELSE IF st.kind = T_JUMP THEN F_JUMP
  ELSE IF st.kind = T_TURN /\ st.subkind = T_LEFT THEN F_TURN_LEFT
  ELSE IF st.kind = T_TURN /\ st.subkind = T_RIGHT THEN F_TURN_RIGHT
  ELSE F_ATTACK

Count(l, Test(_)) == Cardinality({k \in 1..Len(l) : Test(l[k])})

\* C5: generate_tac emits exactly one Call per statement, in program order,
\* with the callee fixed by the statement kind, so the Calls of each kind are
\* as many as the statements of that kind; each move/jump Call is immediately
\* preceded by the Assign of its own fresh temporary holding the statement's
\* argument, and nothing else is emitted.
C5_OneCallPerStatement ==
  Generated =>
    LET sts == program.statements
        cp == CallPositions(tac) IN
    /\ Len(cp) = Len(sts)
    /\ \A k \in 1..Len(sts) : tac[cp[k]].arg = CalleeOf(sts[k])
    /\ \A f \in {F_MOVE, F_JUMP, F_TURN_LEFT, F_TURN_RIGHT, F_ATTACK} :
         Count(tac, LAMBDA a : IsCall(a, {f})) = Count(sts, LAMBDA st : CalleeOf(st) = f)
    /\ \A k \in 1..Len(sts) :
         IF sts[k].kind \in {T_MOVE, T_JUMP}
         THEN /\ cp[k] > 1
              /\ IsAssign(tac[cp[k] - 1])
              /\ tac[cp[k] - 1].result = tac[cp[k]].arg2
              /\ int(tac[cp[k] - 1].arg) = sts[k].arg
              /\ \A j \in 1..Len(tac) :
                   (j # cp[k] - 1 /\ IsAssign(tac[j])) => tac[j].result # tac[cp[k]].arg2
         ELSE tac[cp[k]].arg2 = None
    /\ Len(tac) = Len(sts) + Count(sts, LAMBDA st : st.kind \in {T_MOVE, T_JUMP})

C5_Witness ==
  /\ pc = "optimize_tac"
  /\ Len(program.statements) = 3
  /\ program.statements[1].kind = T_TURN
  /\ program.statements[2].kind = T_JUMP /\ program.statements[2].arg = 12
  /\ program.statements[3].kind = T_MOVE
  /\ Len(tac) = 5

\* every move/jump Call names a temporary assigned at an earlier position, and
\* no temporary is the target of two Assigns
WellScoped(l) ==
  /\ \A k \in 1..Len(l) :
       IsCall(l[k], {F_MOVE, F_JUMP}) =>
         \E j \in 1..(k - 1) : IsAssign(l[j]) /\ l[j].result = l[k].arg2
  /\ \A j, k \in 1..Len(l) :
       (IsAssign(l[j]) /\ IsAssign(l[k]) /\ l[j].result = l[k].result) => j = k

\* C10: in the list generate_tac returns and in the list optimize_tac makes of
\* it, every move/jump Call names a temporary that an Assign at an earlier
\* position targets, and every temporary is the target of at most one Assign.
C10_TemporariesScoped ==
  /\ Generated => WellScoped(tac)
  /\ Optimized => WellScoped(optimized_tac)

C10_Witness ==
  /\ pc = "done"
  /\ Count(tac, IsAssign) = 3
  /\ Count(optimized_tac, IsAssign) = 2
  /\ Count(optimized_tac, LAMBDA a : IsCall(a, {F_MOVE, F_JUMP})) = 2

\* a move or jump of distance zero: Assign(t, 0) then Call(move|jump, t)
ZeroValuePair(a, b) ==
  IsAssign(a) /\ int(a.arg) = 0 /\ IsCall(b, {F_MOVE, F_JUMP}) /\ b.arg2 = a.result

IsNumber(x) == x # <<>> /\ Range(x) \subseteq Range(DIGITS)

IsZero(x) == IsNumber(x) /\ int(x) = 0

\* C4: after the full pipeline no Assign(t, 0) immediately followed by
\* Call(move|jump, t) remains in the optimized IR, so no MOVE or JUMP action of
\* distance 0 is emitted (a literal such as 00 included); a program of
\* zero-distance move/jump statements only optimizes to the empty list and
\* emits no action.
C4_NoZeroDistance ==
  /\ Optimized =>
       \A k \in 1..(Len(optimized_tac) - 1) :
         ~ZeroValuePair(optimized_tac[k], optimized_tac[k + 1])
  /\ \A k \in 1..Len(out) : out[k].action \in {"MOVE", "JUMP"} => ~IsZero(out[k].x)
  /\ (/\ Optimized
      /\ \A k \in 1..Len(program.statements) :
           program.statements[k].kind \in {T_MOVE, T_JUMP} /\ program.statements[k].arg = 0)
       => (optimized_tac = <<>> /\ out = <<>>)

C4_Witness ==
  /\ pc = "done"
  /\ Len(program.statements) = 2
  /\ program.statements[1].kind = T_MOVE /\ program.statements[1].arg = 0
  /\ program.statements[2].kind = T_JUMP /\ program.statements[2].arg = 0
  /\ tokens[5].value = <<"0", "0">>
  /\ Len(tac) = 4 /\ optimized_tac = <<>> /\ out = <<>>

\* ------------------------------------------------ action-level vocabulary
\* turn-left minus turn-right actions among the first n actions
Turns(acts, n) ==
  Cardinality({k \in 1..n : acts[k].action = "TURN LEFT"})
    - Cardinality({k \in 1..n : acts[k].action = "TURN RIGHT"})

\* an attack, or a move/jump of non-zero distance
Significant(a) == a.action = "ATTACK" \/ (a.action \in {"MOVE", "JUMP"} /\ ~IsZero(a.x))

\* the significant actions in order, each with its payload and the net
\* heading it is emitted under
Observed(acts) ==
  LET at == SelectSeq(Indices(acts), LAMBDA k : Significant(acts[k])) IN
  [j \in 1..Len(at) |->
     [action |-> acts[at[j]].action, x |-> acts[at[j]].x, heading |-> Turns(acts, at[j] - 1)]]

\* C3: interpreting the optimized IR and interpreting the unoptimized IR give
\* the same ordered attack and non-zero move/jump actions with the same
\* payloads, under the same net heading each, and the same net heading at the
\* end; the optimized list is no longer than the unoptimized one.
C3_EquivalentSimulation ==
  pc = "done" =>
    LET ref == exec_TAC(tac).out IN
    /\ Observed(out) = Observed(ref)
    /\ Turns(out, Len(out)) = Turns(ref, Len(ref))
    /\ Len(optimized_tac) <= Len(tac)

C3_Witness ==
  /\ pc = "done"
  /\ Len(tac) = 4 /\ tac[1] = CallLeft /\ tac[2] = CallRight
  /\ Len(optimized_tac) = 2
  /\ out = <<Sim("MOVE", <<"5">>)>>

LexicallyBad == FirstOffence.kind # "none"

\* C2: a run whose lexing, parsing or semantic checking fails stops at that
\* stage with exactly one diagnostic once handled and emits no simulated
\* action; actions exist only when every stage before exec_TAC has completed,
\* and nothing of a later stage is computed after a failure.
C2_FailFast ==
  /\ out # <<>> => (pc = "done" /\ exc = NoExc /\ diag = <<>>)
  /\ (exc # NoExc /\ At \in {"lex", "parse", "semantic_check"}) =>
       /\ out = <<>> /\ tac = <<>> /\ optimized_tac = <<>> /\ program = Program(<<>>)
       /\ At = "lex" => (tokens = <<>> /\ parser = Parser(<<>>))
  /\ Len(diag) = (IF pc = "exit" THEN 1 ELSE 0)
  /\ pc = "exit" => exc # NoExc /\ diag[1].e = exc
  /\ LexicallyBad => (At = "lex" /\ out = <<>>)
  /\ (Lexed /\ ~Derives(tokens, 1)) => (At = "parse" /\ out = <<>>)

C2_Witness ==
  /\ pc = "exit" /\ At = "parse"
  /\ Len(diag) = 1 /\ diag[1].label = "Syntax Error:"
  /\ Len(tokens) > 4
  /\ out = <<>>

====
